---------------------------- MODULE Spec2Model ----------------------------
(***************************************************************************)
(* Model of apache_beam/io/azure/blobstorageio.py: the path parser         *)
(* parse_azfs_path and the facade BlobStorageIO (__init__, open,           *)
(* list_prefix under retry.with_exponential_backoff).                      *)
(*                                                                         *)
(* A path is a sequence of one-character strings.                          *)
(***************************************************************************)
EXTENDS Integers, Sequences, FiniteSets, TLC

VARIABLES
  client,       \* BlobStorageIO.client, set by __init__
  store,        \* the container's blobs: blob name -> size (the remote service)
  call,         \* the list_prefix call in flight: wrapper state and the attempt's frame
  rpcLog,       \* the client calls issued since the current facade call began
  constructed,  \* downloaders, uploaders and streams constructed by open so far
  last,         \* what the most recent facade call gave its caller
  parseIn,      \* arguments of the parse_azfs_path call under test
  parseOut      \* its result

vars == <<client, store, call, rpcLog, constructed, last, parseIn, parseOut>>

(***************************************************************************)
(* Characters and strings                                                  *)
(***************************************************************************)

\* [a-z0-9] of the regex, restricted to the characters the model uses
AlnumChars == {"a", "z", "f", "s", "k", "t", "0"}

\* [a-z0-9-]
LabelChars == AlnumChars \cup {"-"}

NL == "\n"

\* 'azfs://'
Scheme == <<"a", "z", "f", "s", ":", "/", "/">>

Rep(c, n) == [i \in 1..n |-> c]

Slice(s, i, j) == [k \in 1..(j - i + 1) |-> s[i + k - 1]]

\* regex quantifier bounds of parse_azfs_path
MinAccountLen == 3
MaxAccountLen == 24
MinLabelMiddle == 1
MaxLabelMiddle == 61

(***************************************************************************)
(* parse_azfs_path                                                         *)
(***************************************************************************)

\* ^azfs://  : the literal prefix at position 1
MatchScheme(p) ==
  /\ Len(p) >= Len(Scheme)
  /\ \A i \in 1..Len(Scheme) : p[i] = Scheme[i]

\* ([a-z0-9]{3,24})/  starting at position a: the lengths n for which the
\* group matches and a '/' follows
AccountLens(p, a) ==
  { n \in MinAccountLen..MaxAccountLen :
      /\ a + n <= Len(p)
      /\ \A i \in a..(a + n - 1) : p[i] \in AlnumChars
      /\ p[a + n] = "/" }

\* (?![a-z0-9-]*--[a-z0-9-]*) at position c: TRUE when the lookahead lets the
\* match go on, i.e. no run of label characters from c is followed by '--'
NoDoubleHyphenAhead(p, c) ==
  ~ \E q \in c..(Len(p) - 1) :
       /\ \A i \in c..(q - 1) : p[i] \in LabelChars
       /\ p[q] = "-"
       /\ p[q + 1] = "-"

\* ([a-z0-9](?!...)[a-z0-9-]{1,61}[a-z0-9])/  starting at position c: the
\* lengths m of the group for which it matches and a '/' follows
ContainerLens(p, c) ==
  { m \in (MinLabelMiddle + 2)..(MaxLabelMiddle + 2) :
      /\ c + m <= Len(p)
      /\ p[c] \in AlnumChars
      /\ NoDoubleHyphenAhead(p, c + 1)
      /\ \A i \in (c + 1)..(c + m - 2) : p[i] \in LabelChars
      /\ p[c + m - 1] \in AlnumChars
      /\ p[c + m] = "/" }

\* (.*)$  starting at position k (k = Len(p) + 1 for an empty rest): '.' matches
\* anything but a newline, and '$' matches at the end of the string or just
\* before a newline that ends the string.  The set holds the group's length.
KeyLens(p, k) ==
  { n \in 0..(Len(p) - k + 1) :
      /\ \A i \in k..(k + n - 1) : p[i] # NL
      /\ \/ k + n = Len(p) + 1
         \/ (k + n = Len(p) /\ p[Len(p)] = NL) }

\* re.match(...): the groups of the match, or the empty set for None.  Each
\* quantifier is greedy: of the lengths that let the rest match, the longest.
ReMatch(p) ==
  IF ~MatchScheme(p) THEN {}
  ELSE
    LET a == Len(Scheme) + 1
        full == UNION { UNION { { <<n, m, l>> : l \in KeyLens(p, a + n + m + 2) }
                                : m \in ContainerLens(p, a + n + 1) }
                        : n \in AccountLens(p, a) }
        greedy == { t \in full : \A u \in full :
                      \/ u[1] < t[1]
                      \/ (u[1] = t[1] /\ u[2] < t[2])
                      \/ (u[1] = t[1] /\ u[2] = t[2] /\ u[3] <= t[3]) }
    IN { [account |-> Slice(p, a, a + t[1] - 1),
          container |-> Slice(p, a + t[1] + 1, a + t[1] + t[2]),
          blob |-> Slice(p, a + t[1] + t[2] + 2, a + t[1] + t[2] + 1 + t[3])]
         : t \in greedy }

parse_azfs_path(azfs_path, blob_optional) ==
  LET match == ReMatch(azfs_path) IN
  IF match = {} \/ (\E g \in match : g.blob = <<>> /\ ~blob_optional)
    THEN [raised |-> "ValueError", account |-> <<>>, container |-> <<>>, blob |-> <<>>]
    ELSE LET g == CHOOSE g \in match : TRUE IN
         [raised |-> "none", account |-> g.account, container |-> g.container,
          blob |-> g.blob]

\* "azfs://%s/%s/%s" % (storage_account, container, name)
FullName(storage_account, container, name) ==
  Scheme \o storage_account \o <<"/">> \o container \o <<"/">> \o name

(***************************************************************************)
(* Names the module and the class bind                                     *)
(***************************************************************************)

\* the names bound at module level: the imports, the two constants, the
\* function and the two classes
ModuleGlobals ==
  {"absolute_import", "io", "logging", "re", "threading", "time", "os", "object",
   "Downloader", "DownloaderStream", "Uploader", "UploaderStream", "retry",
   "BlobServiceClient", "BlobClient", "ContainerClient",
   "DEFAULT_READ_BUFFER_SIZE", "MAX_BATCH_OPERATION_SIZE",
   "parse_azfs_path", "BlobStorageIOError", "BlobStorageIO"}

\* the attributes an instance of BlobStorageIO has: the methods of the class
\* body and the attribute __init__ sets
BlobStorageIO_attrs == {"__init__", "open", "list_prefix", "client"}

\* evaluating a global name: it resolves, or NameError is raised
NameResolves(name) == name \in ModuleGlobals

(***************************************************************************)
(* The remote container and the client's errors                            *)
(***************************************************************************)

MaxSize == 2
MaxRetries == 2
MaxBatch == 2
MaxKeyLen == 2

Account == <<"a", "z", "0">>
Container == <<"f", "s", "0">>

BlobNames == { <<"s">>, <<"s", "/", "k">>, <<"t">> }

\* the container's contents: a set of <<name, size>> pairs, one per blob
Stores ==
  { d \in SUBSET (BlobNames \X (1..MaxSize)) :
      \A e1, e2 \in d : e1[1] = e2[1] => e1 = e2 }

IsPrefix(pre, s) ==
  /\ Len(pre) <= Len(s)
  /\ \A i \in 1..Len(pre) : s[i] = pre[i]

\* what list_blobs(name_starts_with=blob) has to serve: items with .name, .size
Matching(st, blob) ==
  { [name |-> e[1], size |-> e[2]] : e \in { x \in st : IsPrefix(blob, x[1]) } }

Perms(S) ==
  { f \in [1..Cardinality(S) -> S] : \A i, j \in DOMAIN f : f[i] = f[j] => i = j }

RECURSIVE Splits(_)
Splits(s) ==
  IF s = <<>> THEN { <<>> }
  ELSE UNION { { <<SubSeq(s, 1, k)>> \o rest : rest \in Splits(SubSeq(s, k + 1, Len(s))) }
               : k \in 1..Len(s) }

\* the ways the service may page the matching items: any order, any split into
\* non-empty pages; a single empty page when nothing matches
Paginations(items) ==
  IF items = {} THEN { << <<>> >> }
  ELSE UNION { Splits(f) : f \in Perms(items) }

\* exceptions the injected client may raise while a page is fetched
TransientErrors == {"ServerError", "Timeout"}
PermanentErrors == {"ValueError", "NotFound", "BlobStorageIOError"}
ClientErrors == {"ServerError", "Timeout", "NotFound", "BlobStorageIOError"}

(***************************************************************************)
(* retry.with_exponential_backoff around list_prefix                       *)
(***************************************************************************)

\* retry.retry_on_server_errors_and_timeout_filter: TRUE for the errors worth
\* another attempt
retry_on_server_errors_and_timeout_filter(exn) == exn \in TransientErrors

RetryAnyError(exn) == TRUE

\* the filter the decorator of list_prefix is given
ListPrefixRetryFilter(exn) == retry_on_server_errors_and_timeout_filter(exn)

\* with_exponential_backoff: after an attempt raised exn, sleep and call again
\* when the filter allows it and retries remain, else re-raise to the caller
with_exponential_backoff_retries(exn, attempt) ==
  ListPrefixRetryFilter(exn) /\ attempt <= MaxRetries

(***************************************************************************)
(* State                                                                   *)
(***************************************************************************)

\* a dict is a set of <<key, value>> pairs with distinct keys
Keys(d) == { e[1] : e \in d }

\* d[k] = v
DictSet(d, k, v) == { e \in d : e[1] # k } \cup { <<k, v>> }

Idle ==
  [pc |-> "idle", path |-> <<>>, attempt |-> 0, exc |-> "none",
   storage_account |-> <<>>, container |-> <<>>,
   pages |-> <<>>, served |-> <<>>, file_sizes |-> {}, counter |-> 0,
   discarded |-> {}]

NoLast ==
  [op |-> "none", path |-> <<>>, paths |-> <<>>, mode |-> "", raised |-> "none",
   stream |-> "none", value |-> {}, records |-> <<>>, attempts |-> 0,
   storage_account |-> <<>>, container |-> <<>>, served |-> <<>>,
   discarded |-> {}, rpcs |-> {}, built |-> 0]

NoParse == [path |-> <<>>, blob_optional |-> FALSE]
NoResult == [raised |-> "pending", account |-> <<>>, container |-> <<>>, blob |-> <<>>]

\* paths handed to the facade
GoodPaths ==
  { FullName(Account, Container, k) : k \in { <<>>, <<"s">>, <<"s", "/", "k">> } }
BadPaths ==
  { FullName(<<"a", "z">>, Container, <<"s">>),
    FullName(Account, <<"f", "-", "-", "s">>, <<"s">>),
    <<"a", "z", "f", "s", ":", "/">> \o Account }
FacadePaths == GoodPaths \cup BadPaths

Modes == {"r", "rb", "w", "wb", "a", "r+"}

\* BlobStorageIO.__init__: the client given, or the one made from the
\* connection string
BlobStorageIO_init(given) ==
  IF given = "None" THEN "BlobServiceClient.from_connection_string" ELSE given

Init ==
  /\ client = BlobStorageIO_init("injected")
  /\ store \in Stores
  /\ call = Idle
  /\ rpcLog = {}
  /\ constructed = <<>>
  /\ last = NoLast
  /\ parseIn = NoParse
  /\ parseOut = NoResult

(***************************************************************************)
(* BlobStorageIO.open                                                      *)
(***************************************************************************)

\* the body of open: what it raises, the stream it returns, and the objects it
\* constructs on the way, in order
open(filename, mode) ==
  IF mode = "r" \/ mode = "rb" THEN
    IF ~NameResolves("BlobStorageDownloader")
      THEN [raised |-> "NameError", stream |-> "none", builds |-> <<>>]
      ELSE [raised |-> "none", stream |-> "BufferedReader",
            builds |-> <<"BlobStorageDownloader", "DownloaderStream", "BufferedReader">>]
  ELSE IF mode = "w" \/ mode = "wb" THEN
    IF ~NameResolves("BlobStorageUploader")
      THEN [raised |-> "NameError", stream |-> "none", builds |-> <<>>]
      ELSE [raised |-> "none", stream |-> "BufferedWriter",
            builds |-> <<"BlobStorageUploader", "UploaderStream", "BufferedWriter">>]
  ELSE [raised |-> "ValueError", stream |-> "none", builds |-> <<>>]

OpenCall(filename, mode) ==
  /\ call.pc = "idle"
  /\ last.op = "none"
  /\ LET r == open(filename, mode) IN
       /\ constructed' = constructed \o
            [i \in 1..Len(r.builds) |-> [cls |-> r.builds[i], by |-> filename, mode |-> mode]]
       /\ last' = [NoLast EXCEPT !.op = "open", !.path = filename, !.mode = mode,
                                 !.raised = r.raised, !.stream = r.stream,
                                 !.attempts = 1, !.built = Len(r.builds)]
  /\ rpcLog' = {}
  /\ UNCHANGED <<client, store, call, parseIn, parseOut>>

(***************************************************************************)
(* A call of a method the class does not define                            *)
(***************************************************************************)

\* self.azfs.<name>: the bound method, or AttributeError
GetAttr(name) == IF name \in BlobStorageIO_attrs THEN "bound" ELSE "AttributeError"

DeleteBatchCall(paths) ==
  /\ call.pc = "idle"
  /\ last.op = "none"
  /\ GetAttr("delete_batch") = "AttributeError"
  /\ last' = [NoLast EXCEPT !.op = "delete_batch", !.paths = paths,
                            !.raised = "AttributeError", !.attempts = 1]
  /\ rpcLog' = {}
  /\ UNCHANGED <<client, store, call, constructed, parseIn, parseOut>>

(***************************************************************************)
(* BlobStorageIO.list_prefix under the retry decorator                     *)
(***************************************************************************)

\* the caller calls list_prefix(path): the wrapper is about to make attempt 1
ListPrefixCall(path) ==
  /\ call.pc = "idle"
  /\ last.op = "none"
  /\ call' = [Idle EXCEPT !.pc = "begin", !.path = path, !.attempt = 1]
  /\ rpcLog' = {}
  /\ last' = NoLast
  /\ UNCHANGED <<client, store, constructed, parseIn, parseOut>>

\* an attempt raised exn: the wrapper sleeps and calls again, or re-raises.
\* The frame of the failed attempt is garbage from here on; what it had
\* collected is remembered in discarded.
Raise(exn, log) ==
  IF with_exponential_backoff_retries(exn, call.attempt)
    THEN /\ call' = [call EXCEPT !.pc = "begin", !.attempt = @ + 1, !.exc = exn,
                                 !.pages = <<>>, !.served = <<>>,
                                 !.discarded = @ \cup Keys(call.file_sizes)]
         /\ last' = last
    ELSE /\ call' = Idle
         /\ last' = [NoLast EXCEPT !.op = "list_prefix", !.path = call.path,
                                   !.raised = exn, !.attempts = call.attempt,
                                   !.discarded = call.discarded \cup Keys(call.file_sizes),
                                   !.rpcs = log]

StaleFileSizes(frame) == frame.file_sizes

\* file_sizes = {} : the dict of an attempt, whatever an earlier attempt's
\* frame held
FreshFileSizes(frame) == {}

OnlyFirstPage(pages) == IF pages = <<>> THEN <<>> ELSE <<Head(pages)>>

\* for item in response: the pager list_blobs returns yields the items of every
\* page, going on to the next page for as long as the service names one
PagesToIterate(pages) == pages

\* one attempt, from the parse to the call of list_blobs, which returns the
\* pager without fetching anything yet
ListPrefixBegin ==
  /\ call.pc = "begin"
  /\ LET parsed == parse_azfs_path(call.path, TRUE) IN
       IF parsed.raised # "none"
         THEN /\ Raise(parsed.raised, rpcLog)
              /\ rpcLog' = rpcLog
         ELSE \E pg \in Paginations(Matching(store, parsed.blob)) :
                /\ call' = [call EXCEPT !.pc = "iter", !.exc = "none",
                                        !.storage_account = parsed.account,
                                        !.container = parsed.container,
                                        !.file_sizes = FreshFileSizes(call),
                                        !.counter = 0,
                                        !.pages = PagesToIterate(pg), !.served = pg]
                /\ rpcLog' = rpcLog \cup {"get_container_client", "list_blobs"}
                /\ last' = last
  /\ UNCHANGED <<client, store, constructed, parseIn, parseOut>>

\* for item in <one page>: file_sizes[file_name] = item.size ; counter += 1
RECURSIVE AddItems(_, _, _, _)
AddItems(file_sizes, storage_account, container, page) ==
  IF page = <<>> THEN file_sizes
  ELSE AddItems(DictSet(file_sizes,
                        FullName(storage_account, container, Head(page).name),
                        Head(page).size),
                storage_account, container, Tail(page))

\* the for loop takes the items of the next page
ListPrefixPage ==
  /\ call.pc = "iter"
  /\ call.pages # <<>>
  /\ call' = [call EXCEPT
       !.file_sizes = AddItems(@, call.storage_account, call.container, Head(call.pages)),
       !.counter = @ + Len(Head(call.pages)),
       !.pages = Tail(@)]
  /\ rpcLog' = rpcLog \cup {"next_page"}
  /\ UNCHANGED <<client, store, constructed, last, parseIn, parseOut>>

\* fetching the next page raises
ListPrefixPageError(exn) ==
  /\ call.pc = "iter"
  /\ call.pages # <<>>
  /\ Raise(exn, rpcLog \cup {"next_page"})
  /\ rpcLog' = rpcLog \cup {"next_page"}
  /\ UNCHANGED <<client, store, constructed, parseIn, parseOut>>

\* the pager is exhausted: break, return file_sizes; the wrapper returns it
ListPrefixReturn ==
  /\ call.pc = "iter"
  /\ call.pages = <<>>
  /\ last' = [NoLast EXCEPT !.op = "list_prefix", !.path = call.path,
                            !.value = call.file_sizes, !.attempts = call.attempt,
                            !.storage_account = call.storage_account,
                            !.container = call.container,
                            !.served = call.served, !.discarded = call.discarded,
                            !.rpcs = rpcLog]
  /\ call' = Idle
  /\ UNCHANGED <<client, store, rpcLog, constructed, parseIn, parseOut>>

(***************************************************************************)
(* The caller, and the service's other clients                             *)
(***************************************************************************)

\* the caller has the result (or the exception) of its call and goes on
CallerContinues ==
  /\ call.pc = "idle"
  /\ last.op # "none"
  /\ last' = NoLast
  /\ UNCHANGED <<client, store, call, rpcLog, constructed, parseIn, parseOut>>

\* between two attempts of a listing, other clients put and delete blobs

PutBlob(name, size) ==
  /\ call.pc = "begin"
  /\ <<name, size>> \notin store
  /\ store' = { e \in store : e[1] # name } \cup { <<name, size>> }
  /\ UNCHANGED <<client, call, rpcLog, constructed, last, parseIn, parseOut>>

DeleteBlob(name) ==
  /\ call.pc = "begin"
  /\ \E e \in store : e[1] = name
  /\ store' = { e \in store : e[1] # name }
  /\ UNCHANGED <<client, call, rpcLog, constructed, last, parseIn, parseOut>>

Next ==
  \/ \E f \in FacadePaths, m \in Modes : OpenCall(f, m)
  \/ \E n \in 0..MaxBatch : \E ps \in [1..n -> FacadePaths] : DeleteBatchCall(ps)
  \/ \E f \in FacadePaths : ListPrefixCall(f)
  \/ ListPrefixBegin
  \/ ListPrefixPage
  \/ \E e \in ClientErrors : ListPrefixPageError(e)
  \/ ListPrefixReturn
  \/ CallerContinues
  \/ \E n \in BlobNames, z \in 1..MaxSize : PutBlob(n, z)
  \/ \E n \in BlobNames : DeleteBlob(n)

Spec == Init /\ [][Next]_vars

(***************************************************************************)
(* parse_azfs_path on its own                                              *)
(***************************************************************************)

RECURSIVE SeqsUpTo(_, _)
SeqsUpTo(A, n) ==
  IF n = 0 THEN { <<>> }
  ELSE LET shorter == SeqsUpTo(A, n - 1)
       IN shorter \cup { Append(q, c) : q \in shorter, c \in A }

ParseSchemes == { Scheme, <<"a", "z", "f", "s", ":", "/">>, <<"g", "s", ":", "/", "/">> }

ParseAccounts ==
  { Rep("a", n) : n \in {MinAccountLen - 1, MinAccountLen, MaxAccountLen, MaxAccountLen + 1} }
    \cup { <<>>, <<"a", "-", "z">>, <<"a", "A", "z">> }

ParseContainers ==
  { Rep("f", n) : n \in {MinLabelMiddle + 1, MinLabelMiddle + 2,
                         MaxLabelMiddle + 2, MaxLabelMiddle + 3} }
    \cup { <<"f", "-", "s">>, <<"f", "-", "-", "s">>, <<"-", "f", "s">>,
           <<"f", "s", "-">>, <<"f", "-", "s", "-", "0">>, <<"F", "s", "0">>,
           <<"f", "s", "-", "-">> }

ParseKeys == SeqsUpTo({"k", "/", NL}, MaxKeyLen)

ParsePaths ==
  { FullName(a, c, k) : a \in ParseAccounts, c \in ParseContainers, k \in ParseKeys }
    \cup { sch \o a \o <<"/">> \o c \o <<"/">> \o k :
             sch \in ParseSchemes \ {Scheme}, a \in {Account}, c \in {Container},
             k \in ParseKeys }
    \cup { Scheme \o a \o <<"/">> \o c : a \in ParseAccounts, c \in ParseContainers }
    \cup { Scheme \o a : a \in ParseAccounts }

InitParse ==
  /\ client = BlobStorageIO_init("injected")
  /\ store = {}
  /\ call = Idle
  /\ rpcLog = {}
  /\ constructed = <<>>
  /\ last = NoLast
  /\ parseIn \in [path : ParsePaths, blob_optional : BOOLEAN]
  /\ parseOut = NoResult

ParseCall ==
  /\ parseOut.raised = "pending"
  /\ parseOut' = parse_azfs_path(parseIn.path, parseIn.blob_optional)
  /\ UNCHANGED <<client, store, call, rpcLog, constructed, last, parseIn>>

NextParse == ParseCall

SpecParse == InitParse /\ [][NextParse]_vars

(***************************************************************************)
(* Properties                                                              *)
(***************************************************************************)

ReadModes == {"r", "rb"}
WriteModes == {"w", "wb"}

\* the items on all the pages of a pagination
ItemsOf(pages) == UNION { { pages[i][j] : j \in DOMAIN pages[i] } : i \in DOMAIN pages }

RECURSIVE CountItems(_)
CountItems(pages) == IF pages = <<>> THEN 0 ELSE Len(Head(pages)) + CountItems(Tail(pages))

\* the mapping a listing that served these pages has to return
MappingOf(storage_account, container, pages) ==
  { <<FullName(storage_account, container, it.name), it.size>> : it \in ItemsOf(pages) }

\* C1: open returns a read stream for mode 'r' or 'rb', a write stream for mode
\* 'w' or 'wb', and for every other mode raises the invalid-mode ValueError
\* having constructed no downloader, uploader or stream.
C1_OpenByMode ==
  last.op = "open" =>
    /\ last.mode \in ReadModes => (last.raised = "none" /\ last.stream = "BufferedReader")
    /\ last.mode \in WriteModes => (last.raised = "none" /\ last.stream = "BufferedWriter")
    /\ last.mode \notin ReadModes \cup WriteModes =>
         (last.raised = "ValueError" /\ last.stream = "none" /\ last.built = 0)

\* The part of C1 the code does satisfy: a mode that is neither a read nor a
\* write mode raises ValueError and nothing is constructed.
OpenInvalidModeRejected ==
  (last.op = "open" /\ last.mode \notin ReadModes \cup WriteModes) =>
    (last.raised = "ValueError" /\ last.built = 0 /\ constructed = <<>>)

\* C2: a list_prefix that returns gives the mapping whose keys are exactly the
\* full names azfs://<account>/<container>/<name> of the items on all the pages
\* the service served, each with that item's size: no item of any page is
\* missing and none appears twice.
C2_ListComplete ==
  (last.op = "list_prefix" /\ last.raised = "none") =>
    /\ last.value = MappingOf(last.storage_account, last.container, last.served)
    /\ Cardinality(Keys(last.value)) = CountItems(last.served)
    /\ Cardinality(last.value) = CountItems(last.served)

\* a listing returned three entries that the service had served on two or
\* more pages
C2_Witness ==
  /\ last.op = "list_prefix"
  /\ last.raised = "none"
  /\ Len(last.served) >= 2
  /\ Cardinality(last.value) = 3

\* C3: open and list_prefix called with a path parse_azfs_path rejects raise
\* the invalid-path ValueError and have issued no call on the client.
C3_BadPathFailsFirst ==
  /\ (last.op = "list_prefix" /\ parse_azfs_path(last.path, TRUE).raised # "none") =>
       (last.raised = "ValueError" /\ last.rpcs = {})
  /\ (last.op = "open" /\ parse_azfs_path(last.path, FALSE).raised # "none") =>
       (last.raised = "ValueError" /\ rpcLog = {})

\* The part of C3 the code does satisfy: list_prefix on a rejected path raises
\* ValueError with no client call, and open never calls the client.
ListPrefixBadPathNoRpc ==
  /\ (last.op = "list_prefix" /\ parse_azfs_path(last.path, TRUE).raised # "none") =>
       (last.raised = "ValueError" /\ last.rpcs = {})
  /\ (last.op = "open" => rpcLog = {})

WellFormedPath(p, blob_optional) ==
  \E n \in 3..24, m \in 3..63 :
    LET a == Len(Scheme) + 1
        c == a + n + 1
    IN /\ Len(p) >= c + m
       /\ \A i \in 1..Len(Scheme) : p[i] = Scheme[i]
       /\ \A i \in a..(a + n - 1) : p[i] \in AlnumChars
       /\ p[a + n] = "/"
       /\ \A i \in c..(c + m - 1) : p[i] \in LabelChars
       /\ p[c] \in AlnumChars
       /\ p[c + m - 1] \in AlnumChars
       /\ \A i \in c..(c + m - 2) : ~(p[i] = "-" /\ p[i + 1] = "-")
       /\ p[c + m] = "/"
       /\ (blob_optional \/ Len(p) > c + m)

\* C5: parse_azfs_path returns (account, container, key) exactly for the
\* well-formed paths and raises ValueError for every other path, whatever
\* blob_optional is; and the parts it returns, joined as azfs://%s/%s/%s, are
\* the input.
C5_ParseExact ==
  parseOut.raised # "pending" =>
    /\ parseOut.raised = "none" <=> WellFormedPath(parseIn.path, parseIn.blob_optional)
    /\ parseOut.raised = "none" =>
         FullName(parseOut.account, parseOut.container, parseOut.blob) = parseIn.path

\* The extent of C5 the code does satisfy: the same statement for the paths
\* that hold no newline character.
ParseExactWithoutNewline ==
  (parseOut.raised # "pending" /\ \A i \in DOMAIN parseIn.path : parseIn.path[i] # NL) =>
    /\ parseOut.raised = "none" <=> WellFormedPath(parseIn.path, parseIn.blob_optional)
    /\ parseOut.raised = "none" =>
         FullName(parseOut.account, parseOut.container, parseOut.blob) = parseIn.path

\* C6: delete_batch(paths) returns one (path, error-or-None) record for every
\* input path, in input order.
C6_OneRecordPerPath ==
  last.op = "delete_batch" =>
    /\ last.raised = "none"
    /\ Len(last.records) = Len(last.paths)
    /\ \A i \in DOMAIN last.paths : last.records[i][1] = last.paths[i]

\* C7: bytes written, in any split, to the stream open(path, 'w') returns are,
\* after close, what a full read of the stream open(path, 'r') returns.  The
\* law needs its two streams: open in a write mode and then in a read mode on a
\* well-formed path each return a stream over an uploader, respectively a
\* downloader, constructed for that path.
C7_RoundTripStreams ==
  (last.op = "open" /\ last.mode \in ReadModes \cup WriteModes
                    /\ parse_azfs_path(last.path, FALSE).raised = "none") =>
    /\ last.raised = "none"
    /\ \E i \in DOMAIN constructed :
         /\ constructed[i].by = last.path
         /\ constructed[i].cls = IF last.mode \in WriteModes
                                   THEN "BlobStorageUploader" ELSE "BlobStorageDownloader"

\* C8: on the read stream open(path, 'r') returns, seek(o); read(n) gives
\* bytes[o : min(o+n, size)], nothing past the end, and never an error.  The
\* first operation of that sequence, the open in mode 'r' (the default mode of
\* the test), gives the caller a stream to seek and read, not an exception.
C8_ReadStreamUsable ==
  (last.op = "open" /\ last.mode = "r"
                    /\ parse_azfs_path(last.path, FALSE).raised = "none") =>
    /\ last.raised = "none"
    /\ last.stream = "BufferedReader"
    /\ constructed # <<>>
    /\ constructed[Len(constructed)].cls = "BufferedReader"

\* C9: every open() in a read or write mode constructs a downloader or an
\* uploader of its own and a stream of its own around it (so that no two
\* streams share one), and the client handle is the only thing they share.
C9_FreshPerOpen ==
  /\ client = BlobStorageIO_init("injected")
  /\ (last.op = "open" /\ last.mode \in ReadModes \cup WriteModes) =>
       /\ last.built >= 2
       /\ Len(constructed) >= last.built
       /\ \A i \in (Len(constructed) - last.built + 1)..Len(constructed) :
            constructed[i].by = last.path /\ constructed[i].mode = last.mode

\* The part of C9 the code does satisfy: no step reassigns the client handle.
ClientNeverReassigned == [][client' = client]_vars

\* C10: list_prefix keeps nothing from one attempt to the next.  A listing that
\* returns after failed attempts returns what a failure-free listing of the
\* pages of its last attempt returns, with no entry of a failed attempt left
\* over; a transient error reaches the caller only when the retries are used
\* up; and no call makes more than MaxRetries + 1 attempts.
C10_NoStateAcrossAttempts ==
  /\ call.attempt <= MaxRetries + 1
  /\ last.attempts <= MaxRetries + 1
  /\ (last.op = "list_prefix" /\ last.raised \in TransientErrors) =>
       last.attempts = MaxRetries + 1
  /\ (last.op = "list_prefix" /\ last.raised = "none" /\ last.attempts > 1) =>
       /\ last.value = MappingOf(last.storage_account, last.container, last.served)
       /\ \A k \in last.discarded \ Keys(MappingOf(last.storage_account, last.container,
                                                    last.served)) :
            k \notin Keys(last.value)

\* a listing returned on a later attempt, after an attempt that had collected
\* an entry failed and that entry's blob was then deleted
C10_Witness ==
  /\ last.op = "list_prefix"
  /\ last.raised = "none"
  /\ last.attempts > 1
  /\ \E k \in last.discarded : k \notin Keys(last.value)

=============================================================================
